---- MODULE Spec2Model ----
(***************************************************************************)
(* A model of the Sudoku solver of src/src/lib.rs: the grid (Sudoku), the  *)
(* candidate notes (SudokuNote, NotesGrid), the propagation pass           *)
(* (make_all_notes, replace_notes_with_values, advance_with_notes), the    *)
(* dead-end test and the resumable search AllSolutionsIterator::next.      *)
(*                                                                         *)
(* A grid is a function 0..80 -> 0..9, the cell (x, y) at index x + y * 9. *)
(* A 9-bit mask (notes_flags, bit_flags, notes_mask) is the set of the bit *)
(* positions 0..8 that are set: bit b stands for the digit b + 1, `^` is   *)
(* the toggling of one position and `&` is intersection.                   *)
(*                                                                         *)
(* One call of next() is a run of steps, the variable pc holding the       *)
(* position inside the call: "idle" (between two calls), the five          *)
(* statements of one turn of the loop of advance_with_notes                *)
(* ("make_vertical_notes", "make_horizontal_notes", "make_in_cell_notes",  *)
(* "count_notes", "replace_notes_with_values") and "check" (line 1054,     *)
(* after advance_with_notes returned).  No step of another call            *)
(* interleaves: the iterator is borrowed mutably for the whole call.       *)
(*                                                                         *)
(* The methods of Sudoku are also called directly on a grid that no        *)
(* iterator borrows (pc = "no_iterator"): the variable call then holds the *)
(* method, its arguments and what it returned, or that it panicked.        *)
(***************************************************************************)
EXTENDS Integers, Sequences, FiniteSets, TLC

VARIABLES
    sudoku_grid,    \* AllSolutionsIterator.sudoku_grid: the puzzle
    changes_stack,  \* AllSolutionsIterator.changes_stack
    pc,             \* position inside next()
    local_grid,     \* next(): let mut sudoku_grid
    notes,          \* next(): let mut notes
    last_value,     \* next(): let mut last_value
    num_changes,    \* advance_with_notes(): let mut num_changes
    result,         \* what the latest call of next() returned
    results,        \* the results of the first MaxCalls calls, in order
    entry_grid,     \* advance_with_notes(): the grid it was called with
    passes,         \* advance_with_notes(): the turns of its loop so far (counted up to the
                    \* empty squares of that grid + 2)
    popped,         \* the change whose value is the floor last_value: the one popped
                    \* last by next() or revert_last_change, NoChange once floor is 0
    call            \* the latest call of a method of Sudoku made on sudoku_grid

vars == <<sudoku_grid, changes_stack, pc, local_grid, notes, last_value,
          num_changes, result, results, entry_grid, passes, popped, call>>

----------------------------------------------------------------------------
(* Bounds of the model.                                                    *)

\* the calls of next() whose results are recorded in `results`
MaxCalls == 4
\* how many cells of EraseOrder a generated puzzle may have erased
MaxErase == 6
\* how many cells of ClashOrder a puzzle with an overwritten cell may have erased
MaxClashErase == 2

----------------------------------------------------------------------------
(* Program constants.                                                      *)

NUM_SQUARES == 81
\* u32::MAX, the start value of num_changes, which is only ever compared with
\* 0: written as the 32-bit pattern of all ones read as a signed integer
U32_MAX == -1

Cells == 0 .. (NUM_SQUARES - 1)
ALL_VALUES_POSSIBLE == 0 .. 8

----------------------------------------------------------------------------
(* Sudoku                                                                  *)

\* validate_coordinates that tests y only
validate_coordinates_y_only(x, y) == ~(y > 8)

\* validate_coordinates / validate_value: TRUE iff the call does not panic
validate_coordinates(x, y) == ~(x > 8 \/ y > 8)
\* validate_value with `> 10` for `> 9`
validate_value_at_most_ten(value) == ~(value > 10)

validate_value(value) == ~(value > 9)

new_from_array(array) == [i \in Cells |-> array[i + 1]]
new_from_array_panics(array) == \E i \in 1 .. Len(array) : ~validate_value(array[i])

new_empty == [i \in Cells |-> 0]

get_value(g, x, y) == g[x + y * 9]

\* set_value with x and y exchanged in the index
set_value_transposed(g, x, y, value) == [g EXCEPT ![y + x * 9] = value]

set_value(g, x, y, value) == [g EXCEPT ![x + y * 9] = value]
set_value_panics(x, y, value) == ~validate_coordinates(x, y) \/ ~validate_value(value)

num_occurrences_of(g, value) == Cardinality({i \in Cells : g[i] = value})
num_empty_squares(g) == num_occurrences_of(g, 0)
\* has_empty_squares with the loop started at 1
has_empty_squares_from_one(g) == \E i \in Cells \ {0} : g[i] = 0

has_empty_squares(g) == \E i \in Cells : g[i] = 0

\* The scan of one row, column or 3x3 cell in the three fulfills_*
\* functions: `squares` is the sequence of the indices visited, bit_flags the
\* values met so far; FALSE as soon as a non-zero value is met twice.
RECURSIVE ScanNoDuplicate(_, _, _, _)
ScanNoDuplicate(g, squares, k, bit_flags) ==
    IF k > Len(squares) THEN TRUE
    ELSE LET value == g[squares[k]] IN
         IF value = 0 THEN ScanNoDuplicate(g, squares, k + 1, bit_flags)
         ELSE IF (value - 1) \in bit_flags THEN FALSE
         ELSE ScanNoDuplicate(g, squares, k + 1, bit_flags \cup {value - 1})

RowSquares(y) == [k \in 1 .. 9 |-> (k - 1) + y * 9]
ColumnSquares(x) == [k \in 1 .. 9 |-> x + (k - 1) * 9]
\* x outer, y inner, as in fulfills_in_3x3_cell_condition
CellSquares(x_cell, y_cell) ==
    [k \in 1 .. 9 |-> (x_cell * 3 + ((k - 1) \div 3)) + (y_cell * 3 + ((k - 1) % 3)) * 9]

fulfills_horizontal_condition(g) ==
    \A y \in 0 .. 8 : ScanNoDuplicate(g, RowSquares(y), 1, {})
\* fulfills_vertical_condition scanning the rows
fulfills_vertical_condition_rows(g) ==
    \A y \in 0 .. 8 : ScanNoDuplicate(g, RowSquares(y), 1, {})

fulfills_vertical_condition(g) ==
    \A x \in 0 .. 8 : ScanNoDuplicate(g, ColumnSquares(x), 1, {})
fulfills_in_3x3_cell_condition(g) ==
    \A x_cell \in 0 .. 2 : \A y_cell \in 0 .. 2 :
        ScanNoDuplicate(g, CellSquares(x_cell, y_cell), 1, {})

\* is_valid without the test of the 3x3 cells
is_valid_no_cells(g) ==
    /\ fulfills_horizontal_condition(g)
    /\ fulfills_vertical_condition(g)

is_valid(g) ==
    /\ fulfills_horizontal_condition(g)
    /\ fulfills_vertical_condition(g)
    /\ fulfills_in_3x3_cell_condition(g)

\* is_solved without the test of the empty squares
is_solved_valid_only(g) == is_valid(g)

is_solved(g) == ~has_empty_squares(g) /\ is_valid(g)

----------------------------------------------------------------------------
(* SudokuNote, SudokuNoteIter, NotesGrid                                   *)

new_with_all_values_possible ==
    [notes_flags |-> ALL_VALUES_POSSIBLE, num_values_possible |-> 9]

is_value_possible(note, value) == (value - 1) \in note.notes_flags

\* SudokuNoteIter::next from `position`: the position it stops at; a
\* position above 9 is the answer None.
RECURSIVE SkipImpossible(_, _)
SkipImpossible(note, position) ==
    IF ~is_value_possible(note, position) /\ position <= 9
    THEN SkipImpossible(note, position + 1)
    ELSE position
SudokuNoteIter_next(note, position) == SkipImpossible(note, position + 1)

\* possible_values(): the values the iterator yields, in the order it yields them
RECURSIVE IterCollect(_, _)
IterCollect(note, position) ==
    LET p == SudokuNoteIter_next(note, position) IN
    IF p > 9 THEN << >> ELSE <<p>> \o IterCollect(note, p)
\* possible_values with an iterator that starts at position 1
possible_values_from_position_one(note) == IterCollect(note, 1)

possible_values(note) == IterCollect(note, 0)

NotesGrid_new == [i \in Cells |-> new_with_all_values_possible]
NotesGrid_reset(n) == [i \in Cells |-> new_with_all_values_possible]

----------------------------------------------------------------------------
(* Propagation                                                             *)

\* let mut notes_mask = 0b111_111_111; then notes_mask ^= 1 << (value - 1)
\* for every non-empty square of the row, column or 3x3 cell
RECURSIVE NotesMask(_, _, _, _)
NotesMask(g, squares, k, notes_mask) ==
    IF k > Len(squares) THEN notes_mask
    ELSE LET value == g[squares[k]] IN
         IF value = 0 THEN NotesMask(g, squares, k + 1, notes_mask)
         ELSE NotesMask(g, squares, k + 1,
                        IF (value - 1) \in notes_mask
                        THEN notes_mask \ {value - 1}
                        ELSE notes_mask \cup {value - 1})

\* make_all_notes without the call of make_vertical_notes
make_vertical_notes_skipped(n, g) == n

make_vertical_notes(n, g) ==
    LET mask == [x \in 0 .. 8 |-> NotesMask(g, ColumnSquares(x), 1, ALL_VALUES_POSSIBLE)]
    IN [i \in Cells |-> [n[i] EXCEPT !.notes_flags = @ \cap mask[i % 9]]]

make_horizontal_notes(n, g) ==
    LET mask == [y \in 0 .. 8 |-> NotesMask(g, RowSquares(y), 1, ALL_VALUES_POSSIBLE)]
    IN [i \in Cells |-> [n[i] EXCEPT !.notes_flags = @ \cap mask[i \div 9]]]

\* square_y outer, square_x inner, as in make_in_cell_notes
InCellSquares(cell_x, cell_y) ==
    [k \in 1 .. 9 |-> (cell_x * 3 + ((k - 1) % 3)) + (cell_y * 3 + ((k - 1) \div 3)) * 9]

make_in_cell_notes(n, g) ==
    LET mask == [c \in 0 .. 8 |->
                    NotesMask(g, InCellSquares(c % 3, c \div 3), 1, ALL_VALUES_POSSIBLE)]
    IN [i \in Cells |->
          [n[i] EXCEPT !.notes_flags = @ \cap mask[((i % 9) \div 3) + 3 * ((i \div 9) \div 3)]]]

\* count_notes with `for i in 0..8`: the bit of the digit 9 is not counted
count_notes_eight_bits(n) ==
    [i \in Cells |->
        [n[i] EXCEPT !.num_values_possible = Cardinality(n[i].notes_flags \cap (0 .. 7))]]

\* the recount at the end of make_all_notes
count_notes(n) ==
    [i \in Cells |->
        [n[i] EXCEPT !.num_values_possible = Cardinality(n[i].notes_flags \cap (0 .. 8))]]

make_all_notes(n, g) ==
    count_notes(make_in_cell_notes(make_horizontal_notes(make_vertical_notes(n, g), g), g))

\* while num_changes != 0: where advance_with_notes goes on
\* WhileNumChanges that never leaves the loop
WhileNumChanges_always(n) == "make_vertical_notes"

WhileNumChanges(n) == IF n # 0 THEN "make_vertical_notes" ELSE "check"

\* Replaceable with `<= 1` for `== 1`
Replaceable_at_most_one(g, n) == {i \in Cells : n[i].num_values_possible <= 1 /\ g[i] = 0}

\* Replaceable with `for y in 0..8`: the last row is not looked at
Replaceable_skips_last_row(g, n) ==
    {i \in Cells : n[i].num_values_possible = 1 /\ g[i] = 0 /\ i \div 9 < 8}

\* Replaceable without the test that the square is empty
Replaceable_filled_too(g, n) == {i \in Cells : n[i].num_values_possible = 1}

\* the squares replace_notes_with_values writes to
Replaceable(g, n) == {i \in Cells : n[i].num_values_possible = 1 /\ g[i] = 0}

\* replace_notes_with_values that counts the squares and does not write them
replace_notes_with_values_no_write(g, n) ==
    [grid |-> g,
     num_new_values |-> Cardinality(Replaceable(g, n)),
     panicked |-> FALSE]

\* [grid, num_new_values, panicked]: panicked when the expect() on the first
\* possible value fails or set_value rejects its arguments
replace_notes_with_values(g, n) ==
    LET certain_value(i) == SudokuNoteIter_next(n[i], 0)
        squares == Replaceable(g, n)
    IN [grid |-> [i \in Cells |-> IF i \in squares THEN certain_value(i) ELSE g[i]],
        num_new_values |-> Cardinality(squares),
        panicked |-> \E i \in squares :
                        \/ certain_value(i) > 9
                        \/ set_value_panics(i % 9, i \div 9, certain_value(i))]

\* advance_with_notes as one function: the grid and the notes it returns
RECURSIVE advance_with_notes(_, _)
advance_with_notes(g, n) ==
    LET made == make_all_notes(n, g)
        r == replace_notes_with_values(g, made)
    IN IF r.num_new_values # 0 /\ ~r.panicked
       THEN advance_with_notes(r.grid, made)
       ELSE [grid |-> r.grid, notes |-> made]

\* is_dead_end that reads the note of (y, x) for the square (x, y)
is_dead_end_transposed(g, n) ==
    \E x \in 0 .. 8 : \E y \in 0 .. 8 :
        n[y + x * 9].num_values_possible = 0 /\ get_value(g, x, y) = 0

\* is_dead_end without the test that the square is empty
is_dead_end_filled_too(g, n) == \E i \in Cells : n[i].num_values_possible = 0

is_dead_end(g, n) ==
    \E x \in 0 .. 8 : \E y \in 0 .. 8 :
        n[x + y * 9].num_values_possible = 0 /\ get_value(g, x, y) = 0

----------------------------------------------------------------------------
(* AllSolutionsIterator                                                    *)

ValueChange(x, y, value) == [x |-> x, y |-> y, value |-> value]

\* no change: what `popped` holds while last_value is 0
NoChange == ValueChange(0, 0, 0)

\* for value_change in &self.changes_stack { sudoku_grid.set_value(..) }
RECURSIVE Replay(_, _, _)
Replay(g, stack, k) ==
    IF k > Len(stack) THEN g
    ELSE Replay(set_value(g, stack[k].x, stack[k].y, stack[k].value), stack, k + 1)
ReplayPanics(stack) ==
    \E k \in 1 .. Len(stack) : set_value_panics(stack[k].x, stack[k].y, stack[k].value)

Pop(stack) == SubSeq(stack, 1, Len(stack) - 1)
Top(stack) == stack[Len(stack)]

\* BranchChange taking the largest possible value of the square, not the first
BranchChange_largest_value(g, n, floor) ==
    LET squares == {i \in Cells : \E v \in 1 .. 9 :
                        is_value_possible(n[i], v) /\ v > floor /\ g[i] = 0}
        i == CHOOSE m \in squares : \A o \in squares : m <= o
        values == {v \in 1 .. 9 : is_value_possible(n[i], v) /\ v > floor}
    IN [x |-> i % 9, y |-> i \div 9,
        value |-> CHOOSE m \in values : \A o \in values : m >= o]

\* BranchValues without the test that the square is empty
BranchValues_filled_too(g, n, floor, i) ==
    {v \in 1 .. 9 : is_value_possible(n[i], v) /\ v > floor}

\* the square and value the three nested loops of the branch step stop at
\* (y outer, x inner is the ascending order of x + y * 9); {} when they run
\* to their end
BranchValues(g, n, floor, i) ==
    {v \in 1 .. 9 : is_value_possible(n[i], v) /\ v > floor /\ g[i] = 0}
BranchSquares(g, n, floor) == {i \in Cells : BranchValues(g, n, floor, i) # {}}
Least(S) == CHOOSE m \in S : \A o \in S : m <= o

\* BranchChange with the loops exchanged: x outer, y inner
BranchChange_column_major(g, n, floor) ==
    LET squares == BranchSquares(g, n, floor)
        i == CHOOSE m \in squares : \A o \in squares :
                 (m % 9) * 9 + (m \div 9) <= (o % 9) * 9 + (o \div 9)
    IN ValueChange(i % 9, i \div 9, Least(BranchValues(g, n, floor, i)))

BranchChange(g, n, floor) ==
    LET i == Least(BranchSquares(g, n, floor))
    IN ValueChange(i % 9, i \div 9, Least(BranchValues(g, n, floor, i)))

\* Option<Sudoku>, and what a call that has not returned yet has as result
None == [kind |-> "None", grid |-> new_empty]
Some(g) == [kind |-> "Some", grid |-> g]
Panicked == [kind |-> "Panic", grid |-> new_empty]
NotCalled == [kind |-> "NotCalled", grid |-> new_empty]

\* A call of a method of Sudoku: the method, its arguments (0 where it has
\* none; array is << >> but for new_from_array), the number or the boolean it
\* returned, and whether it panicked
Called(op, x, y, value, ret, flag) ==
    [op |-> op, x |-> x, y |-> y, value |-> value, array |-> << >>,
     ret |-> ret, flag |-> flag, panicked |-> FALSE]
CallPanicked(op, x, y, value) ==
    [op |-> op, x |-> x, y |-> y, value |-> value, array |-> << >>,
     ret |-> 0, flag |-> FALSE, panicked |-> TRUE]
NoCall == Called("none", 0, 0, 0, 0, FALSE)

Record(r) == IF Len(results) < MaxCalls THEN Append(results, r) ELSE results

\* revert_last_change without `*sudoku_grid = *self.sudoku_grid`: the changes
\* left on the stack are set on the grid as it is
revert_last_change_no_copy(stack, puzzle, g, n, value) ==
    IF stack = << >>
    THEN [ok |-> FALSE, changes_stack |-> stack, sudoku_grid |-> g,
          notes |-> n, last_value |-> value, panicked |-> FALSE]
    ELSE [ok |-> TRUE, changes_stack |-> Pop(stack),
          sudoku_grid |-> Replay(g, Pop(stack), 1),
          notes |-> NotesGrid_reset(n), last_value |-> Top(stack).value,
          panicked |-> ReplayPanics(Pop(stack))]

\* revert_last_change without notes.reset()
revert_last_change_keeps_notes(stack, puzzle, g, n, value) ==
    IF stack = << >>
    THEN [ok |-> FALSE, changes_stack |-> stack, sudoku_grid |-> g,
          notes |-> n, last_value |-> value, panicked |-> FALSE]
    ELSE [ok |-> TRUE, changes_stack |-> Pop(stack),
          sudoku_grid |-> Replay(puzzle, Pop(stack), 1),
          notes |-> n, last_value |-> Top(stack).value,
          panicked |-> ReplayPanics(Pop(stack))]

\* revert_last_change: ok is FALSE for Err("stack empty"), which leaves its
\* arguments alone
revert_last_change(stack, puzzle, g, n, value) ==
    IF stack = << >>
    THEN [ok |-> FALSE, changes_stack |-> stack, sudoku_grid |-> g,
          notes |-> n, last_value |-> value, panicked |-> FALSE]
    ELSE [ok |-> TRUE, changes_stack |-> Pop(stack),
          sudoku_grid |-> Replay(puzzle, Pop(stack), 1),
          notes |-> NotesGrid_reset(n), last_value |-> Top(stack).value,
          panicked |-> ReplayPanics(Pop(stack))]

----------------------------------------------------------------------------
(* The puzzles the iterator is constructed from.                           *)

\* tests::EXTREMELY_SIMPLE_SUDOKU
EXTREMELY_SIMPLE_SUDOKU ==
    <<7, 0, 6, 0, 5, 0, 4, 1, 9,
      0, 0, 9, 0, 7, 4, 8, 0, 0,
      4, 8, 0, 6, 0, 9, 0, 0, 5,
      0, 0, 8, 9, 0, 5, 0, 3, 4,
      9, 4, 2, 0, 6, 0, 1, 0, 0,
      3, 0, 0, 4, 0, 1, 0, 9, 2,
      0, 9, 0, 0, 0, 6, 5, 8, 1,
      5, 3, 0, 1, 4, 0, 0, 2, 0,
      0, 6, 1, 5, 9, 0, 3, 0, 0>>

\* tests::EXTREMELY_SIMPLE_SUDOKU_SOLUTION
EXTREMELY_SIMPLE_SUDOKU_SOLUTION ==
    <<7, 2, 6, 8, 5, 3, 4, 1, 9,
      1, 5, 9, 2, 7, 4, 8, 6, 3,
      4, 8, 3, 6, 1, 9, 2, 7, 5,
      6, 1, 8, 9, 2, 5, 7, 3, 4,
      9, 4, 2, 3, 6, 7, 1, 5, 8,
      3, 7, 5, 4, 8, 1, 6, 9, 2,
      2, 9, 4, 7, 3, 6, 5, 8, 1,
      5, 3, 7, 1, 4, 8, 9, 2, 6,
      8, 6, 1, 5, 9, 2, 3, 4, 7>>

\* tests::find_solution_dead_end
dead_end ==
    <<1, 2, 0, 4, 5, 6, 7, 8, 9,
      0, 0, 3, 0, 0, 0, 0, 0, 0,
      0, 0, 0, 0, 0, 0, 0, 0, 0,
      0, 0, 0, 0, 0, 0, 0, 0, 0,
      0, 0, 0, 0, 0, 0, 0, 0, 0,
      0, 0, 0, 0, 0, 0, 0, 0, 0,
      0, 0, 0, 0, 0, 0, 0, 0, 0,
      0, 0, 0, 0, 0, 0, 0, 0, 0,
      0, 0, 0, 0, 0, 0, 0, 0, 0>>

\* tests::find_solution_invalid_sudoku
invalid_sudoku ==
    <<0, 0, 0, 4, 4, 0, 0, 0, 9,
      0, 8, 5, 0, 0, 3, 0, 0, 0,
      4, 0, 9, 6, 0, 0, 0, 3, 7,
      3, 0, 0, 5, 0, 4, 0, 0, 0,
      5, 0, 4, 0, 1, 0, 6, 0, 3,
      0, 0, 0, 3, 0, 7, 0, 0, 5,
      8, 1, 0, 0, 0, 9, 7, 0, 6,
      0, 0, 0, 2, 0, 0, 1, 9, 0,
      9, 0, 0, 0, 5, 0, 0, 0, 0>>

\* tests::find_solution_invalid_sudoku_2: two 9's at (0 / 0) and (1 / 0)
invalid_sudoku_2 ==
    <<9, 9, 2, 7, 5, 3, 6, 8, 4,
      7, 6, 5, 8, 9, 4, 1, 3, 2,
      3, 8, 4, 1, 2, 6, 9, 5, 7,
      2, 5, 8, 4, 7, 1, 3, 6, 9,
      4, 1, 7, 6, 3, 9, 5, 2, 8,
      9, 3, 6, 5, 8, 2, 4, 7, 1,
      8, 4, 9, 2, 6, 5, 7, 1, 3,
      6, 7, 1, 3, 4, 8, 2, 9, 5,
      5, 2, 3, 9, 1, 7, 8, 4, 6>>

\* tests::find_all_solutions_exactly_2_solutions
two_possible_solutions_puzzle ==
    <<2, 9, 5, 7, 4, 3, 8, 6, 1,
      4, 3, 1, 8, 6, 5, 9, 0, 0,
      8, 7, 6, 1, 9, 2, 5, 4, 3,
      3, 8, 7, 4, 5, 9, 2, 1, 6,
      6, 1, 2, 3, 8, 7, 4, 9, 5,
      5, 4, 9, 2, 1, 6, 7, 3, 8,
      7, 6, 3, 5, 2, 4, 1, 8, 9,
      9, 2, 8, 6, 7, 1, 3, 5, 4,
      1, 5, 4, 9, 3, 8, 6, 0, 0>>

\* tests::is_solved_yes
solved_sudoku ==
    <<1, 9, 2, 7, 5, 3, 6, 8, 4,
      7, 6, 5, 8, 9, 4, 1, 3, 2,
      3, 8, 4, 1, 2, 6, 9, 5, 7,
      2, 5, 8, 4, 7, 1, 3, 6, 9,
      4, 1, 7, 6, 3, 9, 5, 2, 8,
      9, 3, 6, 5, 8, 2, 4, 7, 1,
      8, 4, 9, 2, 6, 5, 7, 1, 3,
      6, 7, 1, 3, 4, 8, 2, 9, 5,
      5, 2, 3, 9, 1, 7, 8, 4, 6>>

\* two_possible_solutions_puzzle with its four empty squares filled in (one of its two solutions)
BaseArray ==
    <<2, 9, 5, 7, 4, 3, 8, 6, 1,
      4, 3, 1, 8, 6, 5, 9, 2, 7,
      8, 7, 6, 1, 9, 2, 5, 4, 3,
      3, 8, 7, 4, 5, 9, 2, 1, 6,
      6, 1, 2, 3, 8, 7, 4, 9, 5,
      5, 4, 9, 2, 1, 6, 7, 3, 8,
      7, 6, 3, 5, 2, 4, 1, 8, 9,
      9, 2, 8, 6, 7, 1, 3, 5, 4,
      1, 5, 4, 9, 3, 8, 6, 7, 2>>

\* tests::is_solved_no_vertical
unsolved_sudoku_vertical ==
    <<1, 4, 7, 2, 5, 8, 3, 6, 9,
      2, 5, 8, 3, 6, 9, 4, 7, 1,
      3, 6, 9, 4, 7, 1, 5, 8, 2,
      1, 4, 7, 2, 5, 8, 3, 6, 9,
      2, 5, 8, 3, 6, 9, 4, 7, 1,
      3, 6, 9, 4, 7, 1, 5, 8, 2,
      1, 4, 7, 2, 5, 8, 3, 6, 9,
      2, 5, 8, 3, 6, 9, 4, 7, 1,
      3, 6, 9, 4, 7, 1, 5, 8, 2>>

\* tests::is_solved_no_horizontal
unsolved_sudoku_horizontal ==
    <<1, 2, 3, 1, 2, 3, 1, 2, 3,
      4, 5, 6, 4, 5, 6, 4, 5, 6,
      7, 8, 9, 7, 8, 9, 7, 8, 9,
      2, 3, 4, 2, 3, 4, 2, 3, 4,
      5, 6, 7, 5, 6, 7, 5, 6, 7,
      8, 9, 1, 8, 9, 1, 8, 9, 1,
      3, 4, 5, 3, 4, 5, 3, 4, 5,
      6, 7, 8, 6, 7, 8, 6, 7, 8,
      9, 1, 2, 9, 1, 2, 9, 1, 2>>

\* tests::is_solved_no_3x3_cell
unsolved_sudoku_3x3_cell ==
    <<1, 2, 3, 4, 5, 6, 7, 8, 9,
      9, 1, 2, 3, 4, 5, 6, 7, 8,
      8, 9, 1, 2, 3, 4, 5, 6, 7,
      7, 8, 9, 1, 2, 3, 4, 5, 6,
      6, 7, 8, 9, 1, 2, 3, 4, 5,
      5, 6, 7, 8, 9, 1, 2, 3, 4,
      4, 5, 6, 7, 8, 9, 1, 2, 3,
      3, 4, 5, 6, 7, 8, 9, 1, 2,
      2, 3, 4, 5, 6, 7, 8, 9, 1>>

\* tests::new_from_array_panics_on_invalid_value
invalid_value_array ==
    <<0, 0, 0, 0, 0, 0, 0, 0, 0,
      0, 0, 0, 0, 0, 0, 0, 0, 0,
      0, 0, 0, 0, 0, 0, 0, 0, 0,
      0, 0, 0, 0, 0, 0, 0, 0, 0,
      0, 0, 0, 0, 0, 0, 0, 0, 0,
      0, 0, 0, 10, 0, 0, 0, 0, 0,
      0, 0, 0, 0, 0, 0, 0, 0, 0,
      0, 0, 0, 0, 0, 0, 0, 0, 0,
      0, 0, 0, 0, 0, 0, 0, 0, 0>>

Base == new_from_array(BaseArray)

\* set_value(x, y, 0) on every square of S
Erase(g, S) == [i \in Cells |-> IF i \in S THEN 0 ELSE g[i]]

\* The squares the generated puzzles erase from Base, in the order they are
\* taken.  {0, 4, 7, 9, 13, 16} leaves two completions, and so does
\* {16, 17, 79, 80} (which gives two_possible_solutions_puzzle).
EraseOrder == <<0, 4, 7, 9, 13, 16, 17, 79, 80, 8, 34, 35>>
ErasePuzzles ==
    {Erase(Base, S) : S \in SUBSET {EraseOrder[k] : k \in 1 .. MaxErase}}

\* Puzzles with one clue overwritten: square 15 (x = 6, y = 1) gets the value
\* d.  With 16 and 33 erased and d = 2 the grid is valid and square 16 has no
\* candidate; with the 2 of square 16 or 33 left in place it is invalid.
ClashSquare == 6 + 1 * 9
ClashOrder == <<16, 33, 17, 24>>
ClashPuzzles ==
    {[Erase(Base, S) EXCEPT ![ClashSquare] = d] :
        S \in SUBSET {ClashOrder[k] : k \in 1 .. MaxClashErase}, d \in 1 .. 9}

\* Full grids with two rows of Base exchanged.  Rows of the same band give a
\* solved grid; rows of different bands leave every row and column complete
\* and repeat values in 3x3 cells only.
SwapRows(g, a, b) ==
    [i \in Cells |->
        IF i \div 9 = a THEN g[(i % 9) + b * 9]
        ELSE IF i \div 9 = b THEN g[(i % 9) + a * 9]
        ELSE g[i]]
RowSwapPuzzles == {SwapRows(Base, a, b) : a, b \in 0 .. 8}

\* Two puzzles with one completion each that naked singles alone do not solve
GuessPuzzle1 ==
    Erase(Base, {19, 20, 29, 30, 33, 36, 38, 41, 46, 48, 50, 51, 54, 55})
GuessPuzzle2 ==
    Erase(Base, {13, 14, 18, 19, 28, 29, 31, 36, 38, 40, 45, 50, 54, 55, 64, 65})

\* A puzzle with three completions on which the search has two guesses on
\* its stack at once
GuessPuzzle3 ==
    Erase(Base, {7, 9, 14, 15, 22, 24, 25, 31, 32, 33, 36, 42, 43, 45, 65, 69, 71, 72})

TestPuzzles ==
    {new_from_array(EXTREMELY_SIMPLE_SUDOKU),
     new_from_array(EXTREMELY_SIMPLE_SUDOKU_SOLUTION),
     new_from_array(dead_end),
     new_from_array(invalid_sudoku),
     new_from_array(invalid_sudoku_2),
     new_from_array(two_possible_solutions_puzzle),
     new_from_array(solved_sudoku)}

Puzzles ==
    TestPuzzles \cup ErasePuzzles \cup ClashPuzzles \cup RowSwapPuzzles
        \cup {GuessPuzzle1, GuessPuzzle2, GuessPuzzle3}

----------------------------------------------------------------------------
(* The state machine.                                                      *)

\* AllSolutionsIterator::new(puzzle), before the first call of next()
Init ==
    /\ sudoku_grid \in Puzzles
    /\ changes_stack = << >>
    /\ pc = "idle"
    /\ local_grid = sudoku_grid
    /\ notes = NotesGrid_new
    /\ last_value = 0
    /\ num_changes = 0
    /\ result = NotCalled
    /\ results = << >>
    /\ entry_grid = sudoku_grid
    /\ passes = 0
    /\ popped = NoChange
    /\ call = NoCall

\* a panic inside next(): the call does not return
Panic ==
    /\ pc' = "panicked"
    /\ result' = Panicked
    /\ results' = Record(Panicked)

\* return r
Return(r) ==
    /\ pc' = "idle"
    /\ result' = r
    /\ results' = Record(r)

\* next(), lines 1029-1046: the copies, the pop and the replay
Next_Begin ==
    /\ pc = "idle"
    /\ LET stack == IF changes_stack = << >> THEN changes_stack ELSE Pop(changes_stack)
       IN /\ last_value' = IF changes_stack = << >> THEN 0 ELSE Top(changes_stack).value
          /\ changes_stack' = stack
          /\ local_grid' = Replay(sudoku_grid, stack, 1)
          /\ notes' = NotesGrid_new
          /\ num_changes' = U32_MAX
          /\ entry_grid' = Replay(sudoku_grid, stack, 1)
          /\ passes' = 0
          /\ popped' = IF changes_stack = << >> THEN NoChange ELSE Top(changes_stack)
          /\ IF ReplayPanics(stack)
             THEN Panic
             ELSE pc' = WhileNumChanges(U32_MAX) /\ UNCHANGED <<result, results>>
    /\ UNCHANGED sudoku_grid
    /\ UNCHANGED call

\* advance_with_notes, make_all_notes line 812
MakeVerticalNotes ==
    /\ pc = "make_vertical_notes"
    /\ notes' = make_vertical_notes(notes, local_grid)
    /\ pc' = "make_horizontal_notes"
    /\ UNCHANGED <<sudoku_grid, changes_stack, local_grid, last_value, num_changes,
                   result, results, entry_grid, passes, popped>>
    /\ UNCHANGED call

\* make_all_notes line 813
MakeHorizontalNotes ==
    /\ pc = "make_horizontal_notes"
    /\ notes' = make_horizontal_notes(notes, local_grid)
    /\ pc' = "make_in_cell_notes"
    /\ UNCHANGED <<sudoku_grid, changes_stack, local_grid, last_value, num_changes,
                   result, results, entry_grid, passes, popped>>
    /\ UNCHANGED call

\* make_all_notes line 814
MakeInCellNotes ==
    /\ pc = "make_in_cell_notes"
    /\ notes' = make_in_cell_notes(notes, local_grid)
    /\ pc' = "count_notes"
    /\ UNCHANGED <<sudoku_grid, changes_stack, local_grid, last_value, num_changes,
                   result, results, entry_grid, passes, popped>>
    /\ UNCHANGED call

\* make_all_notes lines 816-821
CountNotes ==
    /\ pc = "count_notes"
    /\ notes' = count_notes(notes)
    /\ pc' = "replace_notes_with_values"
    /\ UNCHANGED <<sudoku_grid, changes_stack, local_grid, last_value, num_changes,
                   result, results, entry_grid, passes, popped>>
    /\ UNCHANGED call

\* advance_with_notes line 932 and the loop test of line 930
ReplaceNotesWithValues ==
    /\ pc = "replace_notes_with_values"
    /\ LET r == replace_notes_with_values(local_grid, notes)
       IN /\ local_grid' = r.grid
          /\ num_changes' = r.num_new_values
          /\ IF r.panicked
             THEN Panic
             ELSE pc' = WhileNumChanges(r.num_new_values) /\ UNCHANGED <<result, results>>
    /\ passes' = IF passes <= num_empty_squares(entry_grid) + 1 THEN passes + 1 ELSE passes
    /\ UNCHANGED <<sudoku_grid, changes_stack, notes, last_value, entry_grid, popped>>
    /\ UNCHANGED call

\* Contradiction without the is_valid() test
Contradiction_dead_end_only(g, n) == is_dead_end(g, n)

\* the test of line 1054
Contradiction(g, n) == (~is_valid(g)) \/ is_dead_end(g, n)

\* match self.revert_last_change(..) { Ok(_) => continue 'outer, Err(_) => return None }
RevertOrReturn ==
    LET r == revert_last_change(changes_stack, sudoku_grid, local_grid, notes, last_value)
    IN /\ changes_stack' = r.changes_stack
       /\ popped' = IF changes_stack = << >> THEN popped ELSE Top(changes_stack)
       /\ local_grid' = r.sudoku_grid
       /\ notes' = r.notes
       /\ last_value' = r.last_value
       /\ IF r.panicked
          THEN Panic /\ UNCHANGED <<num_changes, entry_grid, passes>>
          ELSE IF r.ok
          THEN /\ pc' = WhileNumChanges(U32_MAX)
               /\ num_changes' = U32_MAX
               /\ entry_grid' = r.sudoku_grid
               /\ passes' = 0
               /\ UNCHANGED <<result, results>>
          ELSE Return(None) /\ UNCHANGED <<num_changes, entry_grid, passes>>

\* lines 1054-1060: the grid is invalid or a dead end
Backtrack_Contradiction ==
    /\ pc = "check"
    /\ Contradiction(local_grid, notes)
    /\ RevertOrReturn
    /\ UNCHANGED sudoku_grid
    /\ UNCHANGED call

\* lines 1064-1066: return Some(sudoku_grid)
Yield ==
    /\ pc = "check"
    /\ ~Contradiction(local_grid, notes)
    /\ num_empty_squares(local_grid) = 0
    /\ Return(Some(local_grid))
    /\ UNCHANGED <<sudoku_grid, changes_stack, local_grid, notes, last_value, num_changes,
                   entry_grid, passes, popped>>
    /\ UNCHANGED call

\* Branch on an iterator that works on the puzzle itself, not on a copy: the
\* guess is written to the puzzle too
Branch_writes_puzzle ==
    /\ pc = "check"
    /\ ~Contradiction(local_grid, notes)
    /\ num_empty_squares(local_grid) # 0
    /\ BranchSquares(local_grid, notes, last_value) # {}
    /\ LET c == BranchChange(local_grid, notes, last_value)
       IN /\ last_value' = 0
          /\ local_grid' = set_value(local_grid, c.x, c.y, c.value)
          /\ changes_stack' = Append(changes_stack, c)
          /\ num_changes' = U32_MAX
          /\ entry_grid' = set_value(local_grid, c.x, c.y, c.value)
          /\ passes' = 0
          /\ popped' = NoChange
          /\ IF set_value_panics(c.x, c.y, c.value)
             THEN Panic
             ELSE pc' = WhileNumChanges(U32_MAX) /\ UNCHANGED <<result, results>>
    /\ sudoku_grid' = local_grid'
    /\ UNCHANGED notes
    /\ UNCHANGED call

\* lines 1068-1084: the first square with a possible value above last_value
Branch ==
    /\ pc = "check"
    /\ ~Contradiction(local_grid, notes)
    /\ num_empty_squares(local_grid) # 0
    /\ BranchSquares(local_grid, notes, last_value) # {}
    /\ LET c == BranchChange(local_grid, notes, last_value)
       IN /\ last_value' = 0
          /\ local_grid' = set_value(local_grid, c.x, c.y, c.value)
          /\ changes_stack' = Append(changes_stack, c)
          /\ num_changes' = U32_MAX
          /\ entry_grid' = set_value(local_grid, c.x, c.y, c.value)
          /\ passes' = 0
          /\ popped' = NoChange
          /\ IF set_value_panics(c.x, c.y, c.value)
             THEN Panic
             ELSE pc' = WhileNumChanges(U32_MAX) /\ UNCHANGED <<result, results>>
    /\ UNCHANGED <<sudoku_grid, notes>>
    /\ UNCHANGED call

\* lines 1086-1090: no square has a possible value above last_value
Backtrack_Exhausted ==
    /\ pc = "check"
    /\ ~Contradiction(local_grid, notes)
    /\ num_empty_squares(local_grid) # 0
    /\ BranchSquares(local_grid, notes, last_value) = {}
    /\ RevertOrReturn
    /\ UNCHANGED sudoku_grid
    /\ UNCHANGED call

Next ==
    \/ Next_Begin
    \/ MakeVerticalNotes
    \/ MakeHorizontalNotes
    \/ MakeInCellNotes
    \/ CountNotes
    \/ ReplaceNotesWithValues
    \/ Backtrack_Contradiction
    \/ Yield
    \/ Branch
    \/ Backtrack_Exhausted

Spec == Init /\ [][Next]_vars

\* The iterators of the puzzles of the repository's tests and of the two
\* guess puzzles, with a caller that keeps calling next() (collect, count) and
\* calls that run on once started
LiveInit == Init /\ sudoku_grid \in TestPuzzles \cup {GuessPuzzle1, GuessPuzzle2}
LiveSpec == LiveInit /\ [][Next]_vars /\ WF_vars(Next)

\* Sudoku::find_solution(): the first next() of a new iterator on the puzzle
find_solution == results[1]

\* Sudoku::is_solvable(): find_solution().is_some()
is_solvable == find_solution.kind = "Some"

----------------------------------------------------------------------------
(* The methods of Sudoku called on a grid that no iterator borrows.        *)

\* the arrays given to new_from_array
Arrays ==
    {EXTREMELY_SIMPLE_SUDOKU, solved_sudoku, invalid_sudoku,
     unsolved_sudoku_vertical, unsolved_sudoku_horizontal,
     unsolved_sudoku_3x3_cell, invalid_value_array}

\* the coordinates given to get_value, the squares and the values given to
\* set_value, the values given to num_occurrences_of: in range and out of it
ArgCoordinates == 0 .. 9
ArgSquares == {<<0, 0>>, <<4, 7>>, <<9, 0>>, <<0, 9>>, <<8, 9>>, <<9, 9>>}
ArgValues == {0, 9, 10}
ArgOccurrences == 0 .. 10

\* what sudoku_grid holds when new_from_array panicked: there is no grid
NoSudoku == << >>

\* self.grid[x + y * 9] of get_value and set_value: the index is checked
\* against the length of the array
index_panics(x, y) == x + y * 9 >= NUM_SQUARES

\* Sudoku::new_empty() or Sudoku::new_from_array(array)
GridInit ==
    /\ \/ sudoku_grid = new_empty /\ call = Called("new_empty", 0, 0, 0, 0, FALSE)
       \/ \E array \in Arrays :
            IF new_from_array_panics(array)
            THEN /\ sudoku_grid = NoSudoku
                 /\ call = [CallPanicked("new_from_array", 0, 0, 0) EXCEPT !.array = array]
            ELSE /\ sudoku_grid = new_from_array(array)
                 /\ call = [Called("new_from_array", 0, 0, 0, 0, FALSE) EXCEPT !.array = array]
    /\ changes_stack = << >>
    /\ pc = "no_iterator"
    /\ local_grid = sudoku_grid
    /\ notes = NotesGrid_new
    /\ last_value = 0
    /\ num_changes = 0
    /\ result = NotCalled
    /\ results = << >>
    /\ entry_grid = sudoku_grid
    /\ passes = 0
    /\ popped = NoChange

\* a method can be called: there is a grid and no call has panicked
Callable == pc = "no_iterator" /\ ~call.panicked

iterator_vars == <<changes_stack, pc, local_grid, notes, last_value, num_changes,
                   result, results, entry_grid, passes, popped>>

GetValue ==
    /\ Callable
    /\ \E x, y \in ArgCoordinates :
        call' = IF ~validate_coordinates(x, y) \/ index_panics(x, y)
                THEN CallPanicked("get_value", x, y, 0)
                ELSE Called("get_value", x, y, 0, get_value(sudoku_grid, x, y), FALSE)
    /\ UNCHANGED <<sudoku_grid, iterator_vars>>

SetValue ==
    /\ Callable
    /\ \E square \in ArgSquares, value \in ArgValues :
        LET x == square[1]
            y == square[2]
        IN IF set_value_panics(x, y, value) \/ index_panics(x, y)
           THEN /\ call' = CallPanicked("set_value", x, y, value)
                /\ UNCHANGED sudoku_grid
           ELSE /\ call' = Called("set_value", x, y, value, 0, FALSE)
                /\ sudoku_grid' = set_value(sudoku_grid, x, y, value)
    /\ UNCHANGED iterator_vars

NumOccurrencesOf ==
    /\ Callable
    /\ \E value \in ArgOccurrences :
        call' = IF ~validate_value(value)
                THEN CallPanicked("num_occurrences_of", 0, 0, value)
                ELSE Called("num_occurrences_of", 0, 0, value,
                            num_occurrences_of(sudoku_grid, value), FALSE)
    /\ UNCHANGED <<sudoku_grid, iterator_vars>>

NumEmptySquares ==
    /\ Callable
    /\ call' = Called("num_empty_squares", 0, 0, 0, num_empty_squares(sudoku_grid), FALSE)
    /\ UNCHANGED <<sudoku_grid, iterator_vars>>

HasEmptySquares ==
    /\ Callable
    /\ call' = Called("has_empty_squares", 0, 0, 0, 0, has_empty_squares(sudoku_grid))
    /\ UNCHANGED <<sudoku_grid, iterator_vars>>

IsValid ==
    /\ Callable
    /\ call' = Called("is_valid", 0, 0, 0, 0, is_valid(sudoku_grid))
    /\ UNCHANGED <<sudoku_grid, iterator_vars>>

IsSolved ==
    /\ Callable
    /\ call' = Called("is_solved", 0, 0, 0, 0, is_solved(sudoku_grid))
    /\ UNCHANGED <<sudoku_grid, iterator_vars>>

GridNext ==
    \/ GetValue
    \/ SetValue
    \/ NumOccurrencesOf
    \/ NumEmptySquares
    \/ HasEmptySquares
    \/ IsValid
    \/ IsSolved

GridSpec == GridInit /\ [][GridNext]_vars

\* the grids the callers build and the grids the iterators work on
AllInit == Init \/ GridInit
AllNext == Next \/ GridNext
AllSpec == AllInit /\ [][AllNext]_vars

----------------------------------------------------------------------------
(* What a solution is, stated without the program's functions.             *)

Row(i) == i \div 9
Column(i) == i % 9
Box(i) == (Column(i) \div 3) + 3 * (Row(i) \div 3)

\* the squares that share a row, a column or a 3x3 box with square i
Peers ==
    [i \in Cells |->
        {j \in Cells : j # i /\ (Row(j) = Row(i) \/ Column(j) = Column(i) \/ Box(j) = Box(i))}]

\* some non-zero digit occurs twice in a row, column or box
HasDuplicate(g) == \E i \in Cells : g[i] # 0 /\ \E j \in Peers[i] : g[j] = g[i]

\* some non-zero digit occurs twice in a row / in a column / in a 3x3 box
RowDuplicate(g) ==
    \E i, j \in Cells : i # j /\ Row(i) = Row(j) /\ g[i] # 0 /\ g[i] = g[j]
ColumnDuplicate(g) ==
    \E i, j \in Cells : i # j /\ Column(i) = Column(j) /\ g[i] # 0 /\ g[i] = g[j]
BoxDuplicate(g) ==
    \E i, j \in Cells : i # j /\ Box(i) = Box(j) /\ g[i] # 0 /\ g[i] = g[j]

\* the number of squares among 0 .. (k - 1) that hold v
RECURSIVE CountUpTo(_, _, _)
CountUpTo(g, v, k) ==
    IF k = 0 THEN 0 ELSE CountUpTo(g, v, k - 1) + (IF g[k - 1] = v THEN 1 ELSE 0)

\* the sum of num_occurrences_of(v) over v = 0 .. top
RECURSIVE SumOfOccurrences(_, _)
SumOfOccurrences(g, top) ==
    num_occurrences_of(g, top) + (IF top = 0 THEN 0 ELSE SumOfOccurrences(g, top - 1))

\* no empty square and no duplicate
SolvedGrid(g) == (\A i \in Cells : g[i] \in 1 .. 9) /\ ~HasDuplicate(g)

\* g holds the digit of p wherever p has one
KeepsClues(p, g) == \A i \in Cells : p[i] # 0 => g[i] = p[i]

\* the digits no peer of square i holds
Candidates(g, i) == (1 .. 9) \ {g[j] : j \in Peers[i]}

EmptySquares(g) == {i \in Cells : g[i] = 0}

\* every solved grid that extends the duplicate-free grid g: fill an empty
\* square that has the fewest candidates in every possible way
RECURSIVE Extensions(_)
Extensions(g) ==
    IF EmptySquares(g) = {} THEN {g}
    ELSE LET i == CHOOSE e \in EmptySquares(g) :
                    \A o \in EmptySquares(g) :
                        Cardinality(Candidates(g, e)) <= Cardinality(Candidates(g, o))
         IN UNION {Extensions([g EXCEPT ![i] = d]) : d \in Candidates(g, i)}

\* the valid completions of the puzzle p
Completions(p) == IF HasDuplicate(p) THEN {} ELSE Extensions(p)

\* the fixpoint of filling in every empty square that has exactly one candidate
RECURSIVE NakedSingles(_)
NakedSingles(g) ==
    LET single == {i \in EmptySquares(g) : Cardinality(Candidates(g, i)) = 1}
    IN IF single = {} THEN g
       ELSE NakedSingles([i \in Cells |->
                IF i \in single THEN CHOOSE d \in Candidates(g, i) : TRUE ELSE g[i]])

\* propagation from p ends with an empty square that has no candidate
RootDeadEnd(p) ==
    LET g == NakedSingles(p) IN \E i \in EmptySquares(g) : Candidates(g, i) = {}

\* the position of the first None among the recorded results, or one past the
\* last recorded result
FirstNone ==
    LET nones == {k \in 1 .. Len(results) : results[k].kind = "None"}
    IN IF nones = {} THEN Len(results) + 1 ELSE Least(nones)

\* the grids returned before the first None
Yielded == {results[k].grid : k \in 1 .. (FirstNone - 1)}

----------------------------------------------------------------------------
(* The claims.                                                             *)

\* C1: every grid returned by next() is solved (is_solved() is true: no empty
\* square, no duplicate in a row, column or box) and holds the puzzle's digit
\* wherever the puzzle has one.
C1_SolutionsAreSolvedAndKeepClues ==
    result.kind = "Some" =>
        /\ is_solved(result.grid)
        /\ SolvedGrid(result.grid)
        /\ KeepsClues(sudoku_grid, result.grid)

\* C1 witness: a grid was returned for a puzzle with empty squares, after a guess
C1_Witness ==
    /\ pc = "idle"
    /\ result.kind = "Some"
    /\ has_empty_squares(sudoku_grid)
    /\ changes_stack # << >>

\* C2: up to the first None, no two calls of next() return equal grids.
C2_EachSolutionOnce ==
    \A i, j \in 1 .. (FirstNone - 1) : i < j => results[i] # results[j]

\* C3: when next() has returned None, every solved grid that agrees with the
\* puzzle on its clues was returned by an earlier call.
C3_SearchIsComplete ==
    (pc = "idle" /\ FirstNone <= Len(results)) =>
        Completions(sudoku_grid) \subseteq Yielded

\* C3 witness: None was returned after two different grids, the two
\* completions of the puzzle
C3_Witness ==
    /\ pc = "idle"
    /\ FirstNone = 3
    /\ results[1] # results[2]
    /\ Completions(sudoku_grid) = {results[1].grid, results[2].grid}

\* C4: once next() has returned None (the stack is empty then), every later
\* call returns None.
C4_ExhaustedIsTerminal ==
    \A i, j \in 1 .. Len(results) :
        (i < j /\ results[i].kind = "None") => results[j].kind = "None"

\* C5: the sequence is finite: when next() is called again and again, some
\* call returns None.
C5_SequenceIsFinite == <>(pc = "idle" /\ result.kind = "None")

\* C6: for a solved grid G the first call returns G and the second None.
C6_SolvedGridIsSoleSolution ==
    SolvedGrid(sudoku_grid) =>
        /\ Len(results) >= 1 => results[1] = Some(sudoku_grid)
        /\ Len(results) >= 2 => results[2] = None

\* C7: a puzzle with a duplicate in a row, column or box yields nothing: every
\* call of next() returns None, none returns a grid and none panics.
C7_InvalidPuzzleYieldsNothing ==
    HasDuplicate(sudoku_grid) =>
        /\ result.kind \in {"NotCalled", "None"}
        /\ \A k \in 1 .. Len(results) : results[k] = None
        /\ pc # "panicked"

\* C7 witness: the first call on a puzzle with a duplicate and with empty
\* squares has returned None
C7_Witness ==
    /\ HasDuplicate(sudoku_grid)
    /\ has_empty_squares(sudoku_grid)
    /\ pc = "idle"
    /\ Len(results) >= 1
    /\ results[1] = None

\* C8: when propagation from a duplicate-free puzzle ends with an empty square
\* that has no candidate, the first call of next() (find_solution) returns None.
C8_RootDeadEndYieldsNothing ==
    (Len(results) >= 1 /\ results[1] # None) => ~RootDeadEnd(sudoku_grid)

\* C8 witness: the first call on such a puzzle, which has no duplicate, has
\* returned None
C8_Witness ==
    /\ pc = "idle"
    /\ Len(results) >= 1
    /\ results[1] = None
    /\ ~HasDuplicate(sudoku_grid)
    /\ RootDeadEnd(sudoku_grid)

\* C9: for a puzzle with exactly one completion the first call returns that
\* completion and the second call returns None.
C9_UniqueCompletionYieldedOnce ==
    \/ /\ Len(results) >= 1 => (results[1].kind = "Some" /\ SolvedGrid(results[1].grid)
                                 /\ KeepsClues(sudoku_grid, results[1].grid))
       /\ Len(results) >= 2 => results[2] = None
    \/ Cardinality(Completions(sudoku_grid)) # 1

\* C10: for a puzzle with exactly two completions the calls up to the first
\* None return exactly two grids, both solved and different.
C10_TwoCompletionsYieldedOnce ==
    \/ /\ \A k \in 1 .. Len(results) : k <= 2 => results[k].kind = "Some" /\ SolvedGrid(results[k].grid)
       /\ Len(results) >= 2 => results[1] # results[2]
       /\ Len(results) >= 3 => results[3] = None
    \/ Cardinality(Completions(sudoku_grid)) # 2

\* C12: once the first next() has returned, find_solution() is Some exactly
\* when the puzzle has a completion and None exactly when it has none (a
\* puzzle with a duplicate has none), the grid of a Some is one of the
\* completions, and is_solvable() is TRUE exactly when find_solution() is Some.
C12_FindSolutionIffCompletion ==
    (pc = "idle" /\ Len(results) >= 1) =>
        /\ find_solution.kind = "Some" <=> Completions(sudoku_grid) # {}
        /\ find_solution.kind = "None" <=> Completions(sudoku_grid) = {}
        /\ find_solution.kind = "Some" => find_solution.grid \in Completions(sudoku_grid)
        /\ HasDuplicate(sudoku_grid) => find_solution = None
        /\ is_solvable <=> find_solution.kind = "Some"

\* C12 witness: find_solution() returned one of several completions of a puzzle
C12_Witness ==
    /\ pc = "idle"
    /\ Len(results) = 1
    /\ is_solvable
    /\ Cardinality(Completions(sudoku_grid)) >= 2
    /\ find_solution.grid \in Completions(sudoku_grid)

\* C13: get_value and set_value panic whenever x > 8 or y > 8, set_value and
\* num_occurrences_of panic whenever value > 9, new_from_array panics (and
\* builds no grid) whenever an element of the array is > 9, and a set_value
\* that panics leaves the grid as it was.
C13_OutOfRangeArgumentsRejected ==
    /\ call.op \in {"get_value", "set_value"} /\ (call.x > 8 \/ call.y > 8)
            => call.panicked
    /\ call.op \in {"set_value", "num_occurrences_of"} /\ call.value > 9
            => call.panicked
    /\ call.op = "new_from_array" /\ (\E i \in 1 .. Len(call.array) : call.array[i] > 9)
            => call.panicked /\ sudoku_grid = NoSudoku

C13_OutOfRangeArgumentsPanic ==
    /\ []C13_OutOfRangeArgumentsRejected
    /\ [][(call'.op = "set_value" /\ call'.panicked) => sudoku_grid' = sudoku_grid]_vars

\* C13 witness: set_value was called on a square of the grid with the value
\* 10, after a set_value that changed the grid, and panicked
C13_Witness ==
    /\ call.op = "set_value"
    /\ call.x <= 8 /\ call.y <= 8
    /\ call.value > 9
    /\ call.panicked
    /\ sudoku_grid # new_empty
    /\ get_value(sudoku_grid, 4, 7) = 9

\* C14: every grid that exists holds a value of 0 .. 9 in each of its 81
\* squares: the grid built by new_empty or new_from_array and changed by
\* set_value, the puzzle of an iterator, the working grid of next() and the
\* grids next() returned.
C14_StoredValuesInRange ==
    /\ sudoku_grid # NoSudoku =>
            /\ DOMAIN sudoku_grid = Cells
            /\ \A i \in Cells : sudoku_grid[i] \in 0 .. 9
            /\ \A i \in Cells : local_grid[i] \in 0 .. 9
    /\ \A k \in 1 .. Len(results) : \A i \in Cells : results[k].grid[i] \in 0 .. 9

\* C14 witness: inside next(), after a guess written by set_value and at
\* least one more square written by replace_notes_with_values
C14_Witness ==
    /\ pc = "check"
    /\ changes_stack # << >>
    /\ num_empty_squares(local_grid) + 1 < num_empty_squares(sudoku_grid)
    /\ num_changes = 0

\* C15: is_valid() returns TRUE exactly when no non-zero digit occurs twice in
\* a row, a column or a 3x3 box; each of the three conditions is decided by
\* its own units alone (the grids of the three tests fail one condition and
\* fulfil the other two), and the empty grid is valid.
C15_IsValidIffNoDuplicate ==
    sudoku_grid # NoSudoku =>
        /\ call.op = "is_valid" =>
                /\ call.flag <=> ~HasDuplicate(sudoku_grid)
                /\ call.flag <=> ~(RowDuplicate(sudoku_grid) \/ ColumnDuplicate(sudoku_grid)
                                        \/ BoxDuplicate(sudoku_grid))
        /\ fulfills_horizontal_condition(sudoku_grid) <=> ~RowDuplicate(sudoku_grid)
        /\ fulfills_vertical_condition(sudoku_grid) <=> ~ColumnDuplicate(sudoku_grid)
        /\ fulfills_in_3x3_cell_condition(sudoku_grid) <=> ~BoxDuplicate(sudoku_grid)
        /\ sudoku_grid = new_from_array(unsolved_sudoku_horizontal) =>
                /\ ~fulfills_horizontal_condition(sudoku_grid)
                /\ fulfills_vertical_condition(sudoku_grid)
                /\ fulfills_in_3x3_cell_condition(sudoku_grid)
        /\ sudoku_grid = new_from_array(unsolved_sudoku_vertical) =>
                /\ fulfills_horizontal_condition(sudoku_grid)
                /\ ~fulfills_vertical_condition(sudoku_grid)
                /\ fulfills_in_3x3_cell_condition(sudoku_grid)
        /\ sudoku_grid = new_from_array(unsolved_sudoku_3x3_cell) =>
                /\ fulfills_horizontal_condition(sudoku_grid)
                /\ fulfills_vertical_condition(sudoku_grid)
                /\ ~fulfills_in_3x3_cell_condition(sudoku_grid)
        /\ sudoku_grid = new_empty => is_valid(sudoku_grid)

\* C15 witness: is_valid() returned FALSE on a grid whose only duplicates are
\* in columns
C15_Witness ==
    /\ call.op = "is_valid"
    /\ ~call.flag
    /\ ColumnDuplicate(sudoku_grid)
    /\ ~RowDuplicate(sudoku_grid)
    /\ ~BoxDuplicate(sudoku_grid)

\* C16: is_solved() returns TRUE exactly when the grid has no empty square and
\* no duplicate (is_valid() is TRUE); it returns FALSE on a valid grid with an
\* empty square and on a full grid with a duplicate.
C16_IsSolvedIffFullAndValid ==
    (sudoku_grid # NoSudoku /\ call.op = "is_solved") =>
        /\ call.flag <=> SolvedGrid(sudoku_grid)
        /\ call.flag <=> (EmptySquares(sudoku_grid) = {} /\ is_valid(sudoku_grid))
        /\ (is_valid(sudoku_grid) /\ EmptySquares(sudoku_grid) # {}) => ~call.flag
        /\ (EmptySquares(sudoku_grid) = {} /\ HasDuplicate(sudoku_grid)) => ~call.flag

\* C16 witness: is_solved() returned FALSE on a valid grid with one empty square
C16_Witness ==
    /\ call.op = "is_solved"
    /\ ~call.flag
    /\ is_valid(sudoku_grid)
    /\ Cardinality(EmptySquares(sudoku_grid)) = 1

\* C17: after new_from_array(a), get_value(i % 9, i / 9) is a[i] for every
\* i in 0 .. 80; new_empty() has 0 in every square; get_value(x, y) returns
\* the value of the square x + y * 9.
C17_ArrayRoundTrip ==
    /\ (call.op = "new_from_array" /\ ~call.panicked) =>
            \A i \in Cells : get_value(sudoku_grid, i % 9, i \div 9) = call.array[i + 1]
    /\ call.op = "new_empty" =>
            \A x, y \in 0 .. 8 : get_value(sudoku_grid, x, y) = 0
    /\ (call.op = "get_value" /\ ~call.panicked) =>
            /\ call.ret = sudoku_grid[call.x + call.y * 9]
            /\ \E i \in Cells : i % 9 = call.x /\ i \div 9 = call.y /\ call.ret = sudoku_grid[i]

\* C17, the steps: a set_value(x, y, v) that returns leaves v in the square
\* (x, y) and every other square as it was; a get_value(x, y) right after it
\* returns v.
C17_SetValueStep ==
    /\ (call'.op = "set_value" /\ ~call'.panicked) =>
            /\ get_value(sudoku_grid', call'.x, call'.y) = call'.value
            /\ \A x, y \in 0 .. 8 :
                    (x # call'.x \/ y # call'.y) =>
                        get_value(sudoku_grid', x, y) = get_value(sudoku_grid, x, y)
    /\ (/\ call.op = "set_value" /\ ~call.panicked
        /\ call'.op = "get_value" /\ ~call'.panicked
        /\ call'.x = call.x /\ call'.y = call.y) => call'.ret = call.value

C17_GridAddressingRoundTrips == []C17_ArrayRoundTrip /\ [][C17_SetValueStep]_vars

\* C17 witness: on the empty grid set_value(4, 7, 9) was called, and then
\* get_value(4, 7) returned 9
C17_Witness ==
    /\ call.op = "get_value"
    /\ call.x = 4 /\ call.y = 7
    /\ call.ret = 9
    /\ num_occurrences_of(sudoku_grid, 9) = 1
    /\ num_empty_squares(sudoku_grid) = 80

\* C18: num_empty_squares() is num_occurrences_of(0); has_empty_squares() is
\* TRUE exactly when num_empty_squares() > 0; num_occurrences_of(v) is the
\* number of squares that hold v; the counts for v = 0 .. 9 sum to 81.
C18_CountsAgree ==
    sudoku_grid # NoSudoku =>
        /\ call.op = "num_empty_squares" =>
                /\ call.ret = num_occurrences_of(sudoku_grid, 0)
                /\ call.ret = Cardinality(EmptySquares(sudoku_grid))
        /\ call.op = "has_empty_squares" =>
                (call.flag <=> num_empty_squares(sudoku_grid) > 0)
        /\ (call.op = "num_occurrences_of" /\ ~call.panicked) =>
                call.ret = CountUpTo(sudoku_grid, call.value, NUM_SQUARES)
        /\ SumOfOccurrences(sudoku_grid, 9) = NUM_SQUARES

\* C18 witness: has_empty_squares() returned TRUE on a grid whose only empty
\* square is the first
C18_Witness ==
    /\ call.op = "has_empty_squares"
    /\ call.flag
    /\ EmptySquares(sudoku_grid) = {0}

\* C20: every call of next() terminates: whenever a call is running, it later
\* returns (or panics).
C20_EveryCallTerminates ==
    [](pc \notin {"idle", "panicked"} => <>(pc \in {"idle", "panicked"}))

\* C20 witness: a call of next() that had to undo guesses returned None after
\* earlier calls had returned grids
C20_Witness ==
    /\ pc = "idle"
    /\ result = None
    /\ Len(results) >= 2
    /\ results[1].kind = "Some"
    /\ changes_stack = << >>

\* the number of set bits of the mask of the note of square i
Popcount(n, i) == Cardinality(n[i].notes_flags)

\* C22 as claimed: in every state, also between the statements of
\* make_all_notes, the cached count of every note is the number of set bits of
\* its mask.
C22_CountAlwaysPopcount ==
    \A i \in Cells : notes[i].num_values_possible = Popcount(notes, i)

\* C22, amended: the cached count of every note is the number of set bits of
\* its mask after new, after reset and whenever make_all_notes is not in
\* progress; make_vertical_notes, make_horizontal_notes and make_in_cell_notes
\* write the mask only, and the loop that ends make_all_notes recounts.
C22_CountIsPopcountOutsideMakeAllNotes ==
    pc \notin {"make_horizontal_notes", "make_in_cell_notes", "count_notes"} =>
        \A i \in Cells : notes[i].num_values_possible = Popcount(notes, i)

\* C22 witness: make_all_notes has returned with a note that lost candidates,
\* the digit 9 still among those it kept
C22_Witness ==
    /\ pc = "replace_notes_with_values"
    /\ \E i \in Cells :
          /\ notes[i].num_values_possible < 9
          /\ notes[i].num_values_possible > 0
          /\ is_value_possible(notes[i], 9)

\* make_all_notes has just returned from a pass that started on the notes of
\* NotesGrid::new() or of reset(): no guess is on the stack and the loop of
\* advance_with_notes is in its first turn
FirstPassDone ==
    /\ pc = "replace_notes_with_values"
    /\ changes_stack = << >>
    /\ num_changes = U32_MAX

\* C23: after make_all_notes on freshly reset notes, on any grid (also one in
\* which a digit occurs twice in a row, column or box), the candidates of
\* every empty square are exactly the digits absent from its row, its column
\* and its box.
C23_CandidatesAreAbsentDigits ==
    FirstPassDone =>
        \A i \in EmptySquares(local_grid) :
            /\ {b + 1 : b \in notes[i].notes_flags} = Candidates(local_grid, i)
            /\ notes[i].num_values_possible = Cardinality(Candidates(local_grid, i))

\* C24: whenever advance_with_notes has returned a valid grid inside the
\* search, the note of every empty square, accumulated by `&=` over all passes
\* and guesses since the last reset, equals the note that make_all_notes
\* computes once on reset notes and the final grid.
C24_AccumulatedNotesAreRebuiltNotes ==
    (pc = "check" /\ is_valid(local_grid)) =>
        LET rebuilt == make_all_notes(NotesGrid_reset(notes), local_grid)
        IN \A i \in EmptySquares(local_grid) : notes[i] = rebuilt[i]

\* C24 witness: advance_with_notes returned a valid grid with empty squares
\* left, after a guess whose passes ran on the notes of the passes before it
C24_Witness ==
    /\ pc = "check"
    /\ is_valid(local_grid)
    /\ changes_stack # << >>
    /\ results = << >>
    /\ EmptySquares(local_grid) # {}
    /\ \E i \in EmptySquares(local_grid) : notes[i].num_values_possible \in 2 .. 8

\* the squares whose digit a step changes
Written == {i \in Cells : local_grid'[i] # local_grid[i]}

\* C25: replace_notes_with_values writes only into squares that are empty and
\* have exactly one candidate, writes that candidate, leaves every square
\* that holds a digit as it is, and returns the number of squares it filled.
C25_ReplaceWritesSingleCandidates ==
    [][(pc = "replace_notes_with_values" /\ pc' # "panicked") =>
          /\ \A i \in Written :
                /\ local_grid[i] = 0
                /\ notes[i].num_values_possible = 1
                /\ notes[i].notes_flags = {local_grid'[i] - 1}
          /\ \A i \in Cells : local_grid[i] # 0 => local_grid'[i] = local_grid[i]
          /\ num_changes' = Cardinality(Written)
          /\ Written = {i \in Cells : local_grid[i] = 0 /\ local_grid'[i] # 0}]_vars

\* C25 witness: replace_notes_with_values has just filled several squares
\* of a grid in which filled squares had single-candidate notes too
C25_Witness ==
    /\ pc = "make_vertical_notes"
    /\ num_changes \in 2 .. NUM_SQUARES
    /\ \E i \in Cells : sudoku_grid[i] # 0 /\ notes[i].num_values_possible = 1

\* C26: advance_with_notes terminates: every turn of its loop that does not
\* end the loop leaves strictly fewer empty squares, and the loop makes at
\* most (number of empty squares on entry + 1) turns.
C26_PassesAreBounded ==
    /\ [][(pc = "replace_notes_with_values" /\ pc' = "make_vertical_notes") =>
            num_empty_squares(local_grid') < num_empty_squares(local_grid)]_vars
    /\ [](passes <= num_empty_squares(entry_grid) + 1)

\* C26 witness: advance_with_notes returned after as many turns as the bound
\* allows, one that filled a square and one that found nothing to fill
C26_Witness ==
    /\ pc = "check"
    /\ passes >= 2
    /\ passes = num_empty_squares(entry_grid) + 1

\* C27: when advance_with_notes returns, no empty square has a note with
\* exactly one possible value, and every square that held a digit when
\* advance_with_notes was called still holds that digit.
C27_ReturnsAtFixpoint ==
    pc = "check" =>
        /\ \A i \in Cells : local_grid[i] = 0 => notes[i].num_values_possible # 1
        /\ \A i \in Cells : entry_grid[i] # 0 => local_grid[i] = entry_grid[i]

\* C27 witness: advance_with_notes returned after it filled squares of a
\* grid that held digits on entry, with empty squares left
C27_Witness ==
    /\ pc = "check"
    /\ passes >= 2
    /\ local_grid # entry_grid
    /\ entry_grid # new_empty
    /\ EmptySquares(local_grid) # {}

\* C28: advance_with_notes on a valid grid can return a grid with a duplicate,
\* and the search handles such a grid as it handles a dead end: it undoes the
\* latest guess and goes on, or returns None when there is no guess to undo;
\* it neither returns the grid nor guesses on it.
C28_InvalidGridIsBacktracked ==
    [][(pc = "check" /\ ~is_valid(local_grid)) =>
          IF changes_stack = << >>
          THEN pc' = "idle" /\ result' = None
          ELSE /\ pc' = "make_vertical_notes"
               /\ changes_stack' = Pop(changes_stack)
               /\ local_grid' = Replay(sudoku_grid, Pop(changes_stack), 1)
               /\ notes' = NotesGrid_new
               /\ last_value' = Top(changes_stack).value
               /\ UNCHANGED <<result, results>>]_vars

\* C28 witness: advance_with_notes was called with a valid grid and returned
\* one with a duplicate: two squares of a row, column or box that were empty
\* on entry hold the same digit
C28_Witness ==
    /\ pc = "check"
    /\ is_valid(entry_grid)
    /\ ~is_valid(local_grid)
    /\ \E i \in Cells : \E j \in Peers[i] :
          /\ entry_grid[i] = 0 /\ entry_grid[j] = 0
          /\ local_grid[i] # 0 /\ local_grid[i] = local_grid[j]

\* C29: is_dead_end(grid, notes) is true iff some square is empty in the grid
\* and has a note with no possible value; a note with no possible value on a
\* square that holds a digit does not make it true.
C29_DeadEndIffEmptySquareWithoutCandidate ==
    pc = "check" =>
        (is_dead_end(local_grid, notes) <=>
            \E i \in EmptySquares(local_grid) : notes[i].num_values_possible = 0)

\* C29 witness: is_dead_end is false on a grid with empty squares although
\* filled squares have notes with no possible value
C29_Witness ==
    /\ pc = "check"
    /\ ~is_dead_end(local_grid, notes)
    /\ EmptySquares(local_grid) # {}
    /\ \E i \in Cells : local_grid[i] # 0 /\ notes[i].num_values_possible = 0

\* the square a change of the stack names
ChangeSquare(c) == c.x + c.y * 9

\* C30: in every state of the search the change stack has at most as many
\* entries as the puzzle has empty squares, no two entries name the same
\* square, every entry names a square that is empty in the puzzle, and the
\* grid being worked on holds every clue of the puzzle.
C30_StackNamesDistinctEmptySquares ==
    /\ Len(changes_stack) <= num_empty_squares(sudoku_grid)
    /\ \A k, l \in 1 .. Len(changes_stack) :
          k # l => ChangeSquare(changes_stack[k]) # ChangeSquare(changes_stack[l])
    /\ \A k \in 1 .. Len(changes_stack) :
          /\ changes_stack[k].x \in 0 .. 8
          /\ changes_stack[k].y \in 0 .. 8
          /\ sudoku_grid[ChangeSquare(changes_stack[k])] = 0
    /\ \A i \in Cells : sudoku_grid[i] # 0 => local_grid[i] = sudoku_grid[i]

\* C30 witness: advance_with_notes returned while two guesses are on the
\* stack of a puzzle with clues
C30_Witness ==
    /\ Len(changes_stack) >= 2
    /\ pc = "check"
    /\ sudoku_grid # new_empty
    /\ local_grid # sudoku_grid

\* Vec::with_capacity(stack_capacity) of AllSolutionsIterator::new
stack_capacity(puzzle) ==
    IF num_empty_squares(puzzle) > 3 THEN num_empty_squares(puzzle) - 3 ELSE 0

\* C31: the change stack never grows beyond the capacity reserved at
\* construction: at most E - 3 entries for a puzzle with E > 3 empty squares,
\* none for a puzzle with 3 or fewer.
C31_StackWithinCapacity ==
    Len(changes_stack) <= stack_capacity(sudoku_grid)

\* C31 witness: the stack of a puzzle with more than 3 empty squares is as
\* long as the capacity reserved for it
C31_Witness ==
    /\ num_empty_squares(sudoku_grid) > 3
    /\ Len(changes_stack) = stack_capacity(sudoku_grid)
    /\ pc = "check"

\* the digits above floor that the note of square i allows
AboveFloor(i) == {v \in 1 .. 9 : (v - 1) \in notes[i].notes_flags /\ v > last_value}

\* the empty squares of the working grid that have such a digit
Branchable == {i \in EmptySquares(local_grid) : AboveFloor(i) # {}}

\* advance_with_notes returned a grid that is valid, no dead end and not full
AtBranchStep ==
    /\ pc = "check"
    /\ ~HasDuplicate(local_grid)
    /\ ~(\E i \in EmptySquares(local_grid) : notes[i].num_values_possible = 0)
    /\ EmptySquares(local_grid) # {}

\* C32: at the branch step the search takes, in row-major order, the first
\* empty square with a candidate above floor, pushes a change with the
\* smallest such candidate, sets it on the grid and resets floor to 0; when no
\* empty square has such a candidate it pops one change (or returns None when
\* the stack is empty).
C32_BranchStep ==
    [][AtBranchStep =>
          IF Branchable # {}
          THEN \E i \in Branchable : \E v \in AboveFloor(i) :
                  /\ \A o \in Branchable : i <= o
                  /\ \A w \in AboveFloor(i) : v <= w
                  /\ changes_stack' =
                        Append(changes_stack, [x |-> i % 9, y |-> i \div 9, value |-> v])
                  /\ local_grid' = [local_grid EXCEPT ![i] = v]
                  /\ last_value' = 0
                  /\ pc' = "make_vertical_notes"
          ELSE IF changes_stack = << >>
          THEN pc' = "idle" /\ result' = None /\ UNCHANGED changes_stack
          ELSE /\ changes_stack' = SubSeq(changes_stack, 1, Len(changes_stack) - 1)
               /\ last_value' = changes_stack[Len(changes_stack)].value
               /\ pc' = "make_vertical_notes"]_vars

\* C32 witness: the branch step has just pushed a change whose value is not
\* the smallest candidate of its square, a smaller one being at or below floor
C32_Witness ==
    /\ pc = "make_vertical_notes"
    /\ passes = 0
    /\ num_changes = U32_MAX
    /\ last_value = 0
    /\ changes_stack # << >>
    /\ local_grid[ChangeSquare(Top(changes_stack))] = Top(changes_stack).value
    /\ \E v \in 1 .. 9 :
          /\ (v - 1) \in notes[ChangeSquare(Top(changes_stack))].notes_flags
          /\ v < Top(changes_stack).value

\* the candidates of square i that the floor leaves to it when the floor
\* applies to the popped square only
AllowedWithFloorOnPopped(i) ==
    {v \in 1 .. 9 : /\ (v - 1) \in notes[i].notes_flags
                    /\ (i = ChangeSquare(popped) => v > last_value)}

\* C33: the floor applies only to the square whose change was just popped.
\* At a branch step with floor v > 0 the search takes the first empty square,
\* in row-major order, that has a candidate (above v for the popped square,
\* any candidate for every other square) and pushes the smallest of them.
C33_FloorOnPoppedSquareOnly ==
    [][(AtBranchStep /\ last_value > 0) =>
          LET squares == {i \in EmptySquares(local_grid) : AllowedWithFloorOnPopped(i) # {}}
          IN squares # {} =>
                \E i \in squares : \E v \in AllowedWithFloorOnPopped(i) :
                    /\ \A o \in squares : i <= o
                    /\ \A w \in AllowedWithFloorOnPopped(i) : v <= w
                    /\ changes_stack' =
                          Append(changes_stack, [x |-> i % 9, y |-> i \div 9, value |-> v])]_vars

\* copy the puzzle, replay the stack, run advance_with_notes on new notes
Rebuilt(puzzle, stack) == advance_with_notes(Replay(puzzle, stack, 1), NotesGrid_new).grid

\* C34: the working grid is a function of the puzzle and the change stack:
\* whenever advance_with_notes has returned, after a push as after a resume
\* or a revert, the grid is the one obtained by copying the puzzle, replaying
\* the stack and running advance_with_notes.
C34_GridIsFunctionOfPuzzleAndStack ==
    pc = "check" => local_grid = Rebuilt(sudoku_grid, changes_stack)

\* C34 witness: advance_with_notes returned on a grid rebuilt after a pop,
\* with a guess left on the stack, and filled squares of it
C34_Witness ==
    /\ pc = "check"
    /\ popped # NoChange
    /\ changes_stack # << >>
    /\ local_grid # Replay(sudoku_grid, changes_stack, 1)

\* the position SudokuNoteIter holds after it yielded all of the sequence s
PositionAfter(s) == IF s = << >> THEN 0 ELSE s[Len(s)]

\* C35: possible_values() of a note yields the digits whose bit is set in the
\* mask, each once and in ascending order, starting with the smallest from
\* digit 1 on, as many as the mask has set bits, and then None, also when
\* asked again after None.
C35_PossibleValuesAreSetBitsAscending ==
    \A i \in Cells :
        LET s == possible_values(notes[i])
        IN /\ Len(s) = Cardinality(notes[i].notes_flags)
           /\ \A k \in 1 .. Len(s) : s[k] \in 1 .. 9 /\ (s[k] - 1) \in notes[i].notes_flags
           /\ \A k, l \in 1 .. Len(s) : k < l => s[k] < s[l]
           /\ SudokuNoteIter_next(notes[i], PositionAfter(s)) > 9
           /\ SudokuNoteIter_next(notes[i], 10) > 9

\* C35 witness: a note that allows the digits 1 and 9 and not all digits
\* between them, after make_all_notes
C35_Witness ==
    /\ pc = "replace_notes_with_values"
    /\ \E i \in Cells :
          /\ 0 \in notes[i].notes_flags
          /\ 8 \in notes[i].notes_flags
          /\ Cardinality(notes[i].notes_flags) \in 2 .. 8
          /\ possible_values(notes[i])[1] = 1

\* C36: no step of next() changes the puzzle, and a call starts from the
\* puzzle and the change stack alone: its working grid, notes, floor and
\* num_changes are set from them and from nothing the call before left.
C36_PuzzleIsNeverModified ==
    [][/\ sudoku_grid' = sudoku_grid
       /\ pc = "idle" =>
             LET stack == IF changes_stack = << >> THEN << >>
                          ELSE SubSeq(changes_stack, 1, Len(changes_stack) - 1)
             IN /\ changes_stack' = stack
                /\ local_grid' = Replay(sudoku_grid, stack, 1)
                /\ notes' = [i \in Cells |->
                               [notes_flags |-> 0 .. 8, num_values_possible |-> 9]]
                /\ last_value' = IF changes_stack = << >> THEN 0
                                 ELSE changes_stack[Len(changes_stack)].value
                /\ num_changes' = U32_MAX]_vars

\* C36 witness: a third call of next() is running on a puzzle that two calls
\* have returned grids of, the second with guesses left on the stack
C36_Witness ==
    /\ Len(results) = 2
    /\ results[1].kind = "Some"
    /\ results[2].kind = "Some"
    /\ pc = "check"
    /\ changes_stack # << >>
    /\ local_grid # sudoku_grid

\* C37: whenever the search pushes a change (x, y, v), the working grid is
\* valid, the square (x, y) is empty, v is in 1..9 and occurs nowhere in the
\* row, the column and the 3x3 cell of (x, y), and the grid with v set is
\* valid.
C37_PushKeepsGridValid ==
    [][Len(changes_stack') = Len(changes_stack) + 1 =>
          LET c == changes_stack'[Len(changes_stack')]
              i == c.x + c.y * 9
          IN /\ c.x \in 0 .. 8 /\ c.y \in 0 .. 8
             /\ ~HasDuplicate(local_grid)
             /\ local_grid[i] = 0
             /\ c.value \in 1 .. 9
             /\ \A j \in Peers[i] : local_grid[j] # c.value
             /\ local_grid'[i] = c.value
             /\ ~HasDuplicate(local_grid')]_vars

\* C37 witness: a change has just been pushed on top of another, on a grid
\* that held digits in the 3x3 cell of its square which are neither in its
\* row nor in its column
C37_Witness ==
    /\ pc = "make_vertical_notes"
    /\ passes = 0
    /\ last_value = 0
    /\ Len(changes_stack) >= 2
    /\ local_grid[ChangeSquare(Top(changes_stack))] = Top(changes_stack).value
    /\ LET i == ChangeSquare(Top(changes_stack))
       IN \E j \in Cells : /\ Box(j) = Box(i) /\ Row(j) # Row(i) /\ Column(j) # Column(i)
                           /\ local_grid[j] # 0

\* C38: no call of next() panics, whatever grid new_from_array accepted: no
\* set_value of the replay, of replace_notes_with_values or of the branch step
\* is given a coordinate above 8 or a value outside 1..9, and the expect() of
\* replace_notes_with_values finds its value.
C38_NextNeverPanics ==
    /\ pc # "panicked"
    /\ result.kind # "Panic"
    /\ \A k \in 1 .. Len(results) : results[k].kind # "Panic"
    /\ \A k \in 1 .. Len(changes_stack) :
          /\ validate_coordinates(changes_stack[k].x, changes_stack[k].y)
          /\ changes_stack[k].value \in 1 .. 9
    /\ \A i \in Cells : local_grid[i] \in 0 .. 9
    /\ pc = "replace_notes_with_values" =>
          \A i \in Cells : (notes[i].num_values_possible = 1 /\ local_grid[i] = 0) =>
              \E v \in 1 .. 9 : (v - 1) \in notes[i].notes_flags

\* C38 witness: advance_with_notes returned on a puzzle with a duplicate after
\* replace_notes_with_values filled squares of it
C38_Witness ==
    /\ pc = "check"
    /\ HasDuplicate(sudoku_grid)
    /\ local_grid # sudoku_grid
    /\ passes >= 2

====
